---- MODULE Spec2Model ----
(***************************************************************************)
(* FlickFindr search backend: the structural, semantic and hybrid search   *)
(* handlers of src/backend/src/search (views.py, service.py, models.py)    *)
(* and the lazily loaded embedding model of embedding.py.                  *)
(*                                                                         *)
(* Conventions of the model                                                *)
(*   - a text is a tuple of one-character strings, <<"a","b">> for "ab";   *)
(*   - a nullable column or an Optional request field is Null (<<>>) or    *)
(*     Some(v) (<<v>>);                                                    *)
(*   - a rating is counted in tenths (93 for 9.3);                         *)
(*   - a cosine similarity is counted in units of 10^-5 (60000 for 0.6),   *)
(*     a reported similarity_score in units of 10^-4 (6000 for 0.6).       *)
(***************************************************************************)
EXTENDS Integers, Sequences, FiniteSets, TLC

VARIABLES
    catalog,    \* the movies table: id -> row (ids are 1..n, SERIAL)
    call,       \* the request the last handler was given
    matched,    \* ids selected by the WHERE clause of the last handler
    resp,       \* the HTTP response of the last handler
    model,      \* embedding.py's module global _model
    loads,      \* number of SentenceTransformer constructions so far
    pc,         \* per caller: the line of embedding.py it is about to run
    seen,       \* per caller: the value of _model it last read
    entry       \* per caller: the function it called and its argument

vars == <<catalog, call, matched, resp, model, loads, pc, seen, entry>>

----------------------------------------------------------------------------
(* Optional values *)

Null == <<>>

Some(v) == <<v>>

Val(x) == x[1]

Min2(a, b) == IF a <= b THEN a ELSE b

Max2(a, b) == IF a >= b THEN a ELSE b

----------------------------------------------------------------------------
(* Texts *)

\* str.lower() / the case folding of ILIKE, on the characters of the model
LowerChar(c) == IF c = "A" THEN "a" ELSE IF c = "B" THEN "b" ELSE c

Lower(s) == [i \in 1..Len(s) |-> LowerChar(s[i])]

\* byte value of a character: the order of a binary collation
CharCode(c) ==
    CASE c = " " -> 32
      [] c = "%" -> 37
      [] c = "," -> 44
      [] c = "A" -> 65
      [] c = "B" -> 66
      [] c = "_" -> 95
      [] c = "a" -> 97
      [] c = "b" -> 98
      [] c = "c" -> 99

RECURSIVE StrLess(_, _)
StrLess(s, t) ==
    IF t = <<>> THEN FALSE
    ELSE IF s = <<>> THEN TRUE
    ELSE IF s[1] = t[1] THEN StrLess(Tail(s), Tail(t))
    ELSE CharCode(s[1]) < CharCode(t[1])

\* SQL LIKE: % matches any run of characters, _ any single character
RECURSIVE LikeMatch(_, _)
LikeMatch(p, s) ==
    IF p = <<>> THEN s = <<>>
    ELSE IF p[1] = "%"
         THEN LikeMatch(Tail(p), s) \/ (s # <<>> /\ LikeMatch(p, Tail(s)))
    ELSE IF s = <<>> THEN FALSE
    ELSE (p[1] = "_" \/ p[1] = s[1]) /\ LikeMatch(Tail(p), Tail(s))

\* column.ilike(pattern): NULL columns never match
ILike(col, pattern) ==
    col # Null /\ LikeMatch(Lower(pattern), Lower(Val(col)))

\* f"%{value}%"
Wrap(value) == <<"%">> \o value \o <<"%">>

----------------------------------------------------------------------------
(* The catalog *)

\* largest number of rows of the movies table
MaxMovies == 3

\* a stored plot_embedding: NULL, the zero vector that
\* batch_generate_embeddings stores for an empty plot, or a model vector.
\* A model vector is known by cos, its cosine similarity to the vector of
\* the non-blank query text (in 10^-5, from -100000 to 100000: a plot
\* orthogonal to the query has 0), and by ivf, the list of the ivfflat index it
\* was assigned to.
NoEmbedding == [kind |-> "null", cos |-> 0, ivf |-> 0]

ZeroEmbedding == [kind |-> "zero", cos |-> 0, ivf |-> 0]

Embedding(c, l) == [kind |-> "vec", cos |-> c, ivf |-> l]

\* a row of the movies table; movie_name is NOT NULL
Movie(name, rating, runtime, genre, metascore, directors, stars, emb) ==
    [movie_name |-> Some(name), rating |-> rating, runtime |-> runtime,
     genre |-> genre, metascore |-> metascore, directors |-> directors,
     stars |-> stars, plot_embedding |-> emb]

\* the column attributes of the mapped class Movie
MovieColumns ==
    {"id", "movie_name", "rating", "runtime", "genre", "metascore", "plot",
     "directors", "stars", "votes", "gross", "poster_url", "plot_embedding"}

\* row contents the catalogs of the model are made of
RecordPool ==
    << Movie(<<"a","b">>, Some(93), Some(142), Some(<<"A">>), Some(82),
             Some(<<"a">>), Some(<<"b">>), Embedding(75000, 1)),
       Movie(<<"A","%">>, Some(90), Some(152), Some(<<"a",",","b">>), Null,
             Some(<<"b">>), Null, Embedding(60000, 2)),
       Movie(<<"b">>, Null, Null, Null, Some(74),
             Null, Some(<<"a">>), NoEmbedding),
       Movie(<<"b","a">>, Some(90), Some(142), Some(<<"b">>), Some(82),
             Some(<<"a">>), Some(<<"a">>), Embedding(59990, 1)),
       Movie(<<"B">>, Some(88), Some(175), Some(<<"%">>), Some(94),
             Some(<<"A","b">>), Some(<<"b">>), ZeroEmbedding),
       Movie(<<"a","_">>, Some(0), Some(0), Some(<<"b",",",","," ","a">>), Some(0),
             Null, Null, Embedding(59996, 2)),
       Movie(<<"a","a">>, Some(71), Some(90), Some(<<"a",",","a">>), Null,
             Some(<<"a">>), Null, Embedding(0, 1)),
       Movie(<<"b","b">>, Some(65), Null, Some(<<>>), Some(50),
             Null, Some(<<"b">>), Embedding(-25000, 2)) >>

\* the tables of at most MaxMovies rows with contents of the pool; the ids
\* are 1..n as SERIAL assigns them
Catalogs ==
    UNION { { [i \in 1..n |-> RecordPool[f[i]]] :
                f \in { g \in [1..n -> 1..Len(RecordPool)] :
                          \A i \in 1..n : \A j \in 1..n :
                              i < j => g[i] <= g[j] } } :
            n \in 0..MaxMovies }

----------------------------------------------------------------------------
(* Request models (models.py) *)

SortBy == {"rating", "runtime", "movie_name", "metascore", "similarity"}

SortOrder == {"asc", "desc"}

StructuralSearchRequest(query, genre, directors, stars, min_rating, max_rating, min_runtime, max_runtime, sort_by, sort_order, skip, limit) ==
    [query |-> query, genre |-> genre, directors |-> directors,
     stars |-> stars, min_rating |-> min_rating, max_rating |-> max_rating,
     min_runtime |-> min_runtime, max_runtime |-> max_runtime,
     sort_by |-> sort_by, sort_order |-> sort_order, skip |-> skip,
     limit |-> limit]

\* if value: None and "" are both false
Truthy(x) == x # Null /\ Val(x) # <<>>

----------------------------------------------------------------------------
(* StructuralSearchService (service.py) *)

\* query.filter(column.ilike(f"%{value}%")) when value is truthy
FilterILike(rows, column, value) ==
    IF Truthy(value)
    THEN {i \in rows : ILike(catalog[i][column], Wrap(Val(value)))}
    ELSE rows

\* query.filter(column >= bound) when bound is not None
FilterGe(rows, column, bound) ==
    IF bound # Null
    THEN {i \in rows : catalog[i][column] # Null
                       /\ Val(catalog[i][column]) >= Val(bound)}
    ELSE rows

\* query.filter(column <= bound) when bound is not None
FilterLe(rows, column, bound) ==
    IF bound # Null
    THEN {i \in rows : catalog[i][column] # Null
                       /\ Val(catalog[i][column]) <= Val(bound)}
    ELSE rows

build_query(request) ==
    LET q0 == DOMAIN catalog
        q1 == FilterILike(q0, "movie_name", request.query)
        q2 == FilterILike(q1, "genre", request.genre)
        q3 == FilterILike(q2, "directors", request.directors)
        q4 == FilterILike(q3, "stars", request.stars)
        q5 == FilterGe(q4, "rating", request.min_rating)
        q6 == FilterLe(q5, "rating", request.max_rating)
        q7 == FilterGe(q6, "runtime", request.min_runtime)
        q8 == FilterLe(q7, "runtime", request.max_runtime)
    IN  q8

\* the value of a sort column of row i, Null when the column is NULL
SortKey(i, column) == catalog[i][column]

KeyLess(column, a, b) ==
    IF column = "movie_name" THEN StrLess(a, b) ELSE a < b

\* the ordering without nulls_last(): the database default puts NULLs first
\* in a descending sort
PrecedesNullsFirstOnDesc(i, j, column, order) ==
    LET a == SortKey(i, column)
        b == SortKey(j, column)
    IN  IF order = "desc"
        THEN \/ a = Null /\ b # Null
             \/ a # Null /\ b # Null /\ KeyLess(column, Val(b), Val(a))
        ELSE \/ a # Null /\ b = Null
             \/ a # Null /\ b # Null /\ KeyLess(column, Val(a), Val(b))

\* row i must precede row j under ORDER BY column <order> NULLS LAST
Precedes(i, j, column, order) ==
    LET a == SortKey(i, column)
        b == SortKey(j, column)
    IN  \/ a # Null /\ b = Null
        \/ /\ a # Null
           /\ b # Null
           /\ IF order = "desc" THEN KeyLess(column, Val(b), Val(a))
                                ELSE KeyLess(column, Val(a), Val(b))

\* every sequence of the rows that ORDER BY may produce: rows the ordering
\* does not separate come in any order
RECURSIVE Orderings(_, _, _)
Orderings(rows, column, order) ==
    IF rows = {} THEN {<<>>}
    ELSE UNION { { <<m>> \o t : t \in Orderings(rows \ {m}, column, order) } :
                 m \in { x \in rows :
                           \A y \in rows : ~Precedes(y, x, column, order) } }

apply_sorting(rows, request) == Orderings(rows, request.sort_by, request.sort_order)

\* a count taken after offset and limit instead of before
TotalCountOfPage(request) ==
    Min2(request.limit,
         Max2(0, Cardinality(build_query(request)) - request.skip))

\* query.count() on the filtered query, before sorting and pagination
TotalCount(request) == Cardinality(build_query(request))

\* an offset that skips one row too many
OffsetLimitOffByOne(ordered, skip, limit) ==
    SubSeq(ordered, skip + 2, Min2(Len(ordered), skip + 1 + limit))

\* query.offset(skip).limit(limit).all()
OffsetLimit(ordered, skip, limit) ==
    SubSeq(ordered, skip + 1, Min2(Len(ordered), skip + limit))

Raised == [raised |-> TRUE, results |-> <<>>, total |-> 0]

\* the outcomes of execute_search: getattr(Movie, sort_by) raises
\* AttributeError for a name that is no column, and the except clause
\* re-raises
execute_search(request) ==
    IF request.sort_by \notin MovieColumns
    THEN {Raised}
    ELSE { [raised |-> FALSE,
            results |-> OffsetLimit(o, request.skip, request.limit),
            total |-> TotalCount(request)] :
           o \in apply_sorting(build_query(request), request) }

----------------------------------------------------------------------------
(* Structural search endpoint (views.py) *)

NoScore == [kind |-> "none", v |-> 0]

NaNScore == [kind |-> "nan", v |-> 0]

Score(x) == [kind |-> "num", v |-> x]

\* a MovieResult: the row's id and its similarity_score (None by default)
MovieResult(i, score) == [id |-> i, similarity_score |-> score]

\* no request is being handled
NoCall == [op |-> "none", req |-> <<>>]

NoResponse == [status |-> 0]

HTTP500(detail) == [status |-> 500, detail |-> detail]

\* has_more of the response
HasMore(skip, n, total) == skip + n < total

SearchResponse(out, request) ==
    [status |-> 200,
     results |-> [k \in 1..Len(out.results) |-> MovieResult(out.results[k], NoScore)],
     total |-> out.total,
     skip |-> request.skip,
     limit |-> request.limit,
     has_more |-> HasMore(request.skip, Len(out.results), out.total)]

\* how the statements of a structural search end: query.count() may
\* raise, and so may the page query, which is reached only when
\* apply_sorting has not raised
StructuralStoreOutcomes(request) ==
    IF request.sort_by \in MovieColumns
    THEN {"ok", "count_failed", "select_failed"}
    ELSE {"ok", "count_failed"}

\* the number of SQL statements a call has sent when it ends
StatementsSent(request, store) ==
    CASE store = "count_failed" -> 1
      [] store = "select_failed" -> 2
      [] store = "failed" -> 1
      [] store = "not_called" -> 0
      [] OTHER -> IF "sort_by" \in DOMAIN request
                  THEN (IF request.sort_by \in MovieColumns THEN 2 ELSE 1)
                  ELSE 1

\* the store failure answered as a search that found nothing
StoreFailedEmptySuccess(detail) ==
    /\ matched' = {}
    /\ resp' = [status |-> 200, results |-> <<>>, total |-> 0,
                exact_matches |-> FALSE, message |-> detail]

\* a statement raised: the service logs and re-raises, the endpoint
\* answers HTTPException(500); nothing is sent again
StoreFailed(detail) ==
    /\ matched' = {}
    /\ resp' = HTTP500(detail)

structural_search(request) ==
    /\ call = NoCall
    /\ \E store \in StructuralStoreOutcomes(request) :
          /\ call' = [op |-> "structural", req |-> request,
                      embedding |-> "not_called", store |-> store,
                      statements |-> StatementsSent(request, store)]
          /\ IF store = "ok"
             THEN /\ matched' = build_query(request)
                  /\ \E out \in execute_search(request) :
                        resp' = IF out.raised THEN HTTP500("Search failed")
                                              ELSE SearchResponse(out, request)
             ELSE StoreFailed("Search failed")
    /\ UNCHANGED <<catalog, model, loads, pc, seen, entry>>

----------------------------------------------------------------------------
(* Embedding provider (embedding.py), as one request handler runs it *)

\* not text or not text.strip()
Blank(text) == \A k \in 1..Len(text) : text[k] = " "

\* the vector generate_embedding returns: [0.0] * 384 for a blank text,
\* otherwise model.encode(text)
QueryVector(text) == IF Blank(text) THEN "zero" ELSE "vec"

\* _model after get_model() has run to its end in caller c: constructed by
\* c when it was None, untouched otherwise
ModelAfterGet(c) == IF model = Null THEN Some(c) ELSE model

LoadsAfterGet == IF model = Null THEN loads + 1 ELSE loads

\* generate_embedding with get_model() called before the test of the text
generate_embedding_model_first(text) ==
    model' = ModelAfterGet(0) /\ loads' = LoadsAfterGet

\* generate_embedding(text) run by the request handler (caller 0): the
\* model is fetched only for a text that is not blank
generate_embedding(text) ==
    IF Blank(text)
    THEN UNCHANGED <<model, loads>>
    ELSE model' = ModelAfterGet(0) /\ loads' = LoadsAfterGet

----------------------------------------------------------------------------
(* SemanticSearchService (service.py) *)

SIMILARITY_THRESHOLD == 6000

\* number of lists of the ivfflat index on plot_embedding (the index is
\* created WITH (lists = 100); the model keeps fewer)
IvfLists == 2

\* 1 - (plot_embedding <=> query vector): NaN when either vector has norm 0
Similarity(i, qv) ==
    IF qv = "zero" \/ catalog[i].plot_embedding.kind = "zero"
    THEN NaNScore
    ELSE Score(catalog[i].plot_embedding.cos)

\* row i must precede row j under ORDER BY plot_embedding <=> query vector:
\* ascending distance is descending similarity, and NaN sorts after every
\* number
NearerThan(i, j, qv) ==
    LET a == Similarity(i, qv)
        b == Similarity(j, qv)
    IN  a.kind = "num" /\ (b.kind = "nan" \/ a.v > b.v)

RECURSIVE DistanceOrderings(_, _)
DistanceOrderings(rows, qv) ==
    IF rows = {} THEN {<<>>}
    ELSE UNION { { <<m>> \o t : t \in DistanceOrderings(rows \ {m}, qv) } :
                 m \in { x \in rows : \A y \in rows : ~NearerThan(y, x, qv) } }

\* LIMIT :limit
Limit(ordered, limit) == SubSeq(ordered, 1, Min2(Len(ordered), limit))

\* the query answered by a sequential scan and a sort
SeqScan(rows, qv, limit) ==
    { Limit(o, limit) : o \in DistanceOrderings(rows, qv) }

\* the query answered through the ivfflat index with the default of one
\* probe: only the rows of the probed list are visited; rows whose vector
\* has norm 0 are not in the index, and a query vector of norm 0 finds
\* nothing
IndexScan(rows, qv, limit) ==
    IF qv = "zero" THEN {<<>>}
    ELSE UNION { { Limit(o, limit) :
                     o \in DistanceOrderings(
                             {i \in rows : /\ catalog[i].plot_embedding.kind = "vec"
                                           /\ catalog[i].plot_embedding.ivf = p},
                             qv) } :
                 p \in 1..IvfLists }

\* the row sequences self.db.execute(sql, params) may return; the planner
\* chooses between the two plans
NearestRows(rows, qv, limit) ==
    SeqScan(rows, qv, limit) \cup IndexScan(rows, qv, limit)

\* round(x, 4) of a similarity counted in 10^-5: to the nearest 10^-4,
\* an exact tie to the even neighbour
Round4(x) ==
    LET q == x \div 10
        r == x % 10
    IN  IF r < 5 THEN q
        ELSE IF r > 5 THEN q + 1
        ELSE IF q % 2 = 0 THEN q ELSE q + 1

\* round(float(row.similarity_score), 4) if row.similarity_score else None
\* (0.0 is false, NaN is true)
RowScore(raw) ==
    IF raw.kind = "nan" THEN NaNScore
    ELSE IF raw.v = 0 THEN NoScore
    ELSE Score(Round4(raw.v))

\* the comparison with > in place of >=
AboveThresholdStrict(score) ==
    score.kind = "num" /\ score.v # 0 /\ score.v > SIMILARITY_THRESHOLD

\* m["similarity_score"] and m["similarity_score"] >= SIMILARITY_THRESHOLD
\* (None and 0.0 are false; NaN >= x is false)
AboveThreshold(score) ==
    score.kind = "num" /\ score.v # 0 /\ score.v >= SIMILARITY_THRESHOLD

ExactMatches(movies) ==
    \E k \in 1..Len(movies) : AboveThreshold(movies[k].similarity_score)

\* the message chosen with the emptiness test before exact_matches
MessageSimilarFirst(exact_matches, movies, empty_message) ==
    IF movies # <<>>
    THEN "No exact matches found, but here are some similar movies"
    ELSE IF exact_matches THEN "Movies found matching your query"
    ELSE empty_message

\* if exact_matches: ... elif movies: ... else: ...
Message(exact_matches, movies, empty_message) ==
    IF exact_matches THEN "Movies found matching your query"
    ELSE IF movies # <<>>
    THEN "No exact matches found, but here are some similar movies"
    ELSE empty_message

\* the dict the service returns for the rows the database returned
SearchResult(rows, qv, empty_message) ==
    LET movies == [k \in 1..Len(rows) |->
                     MovieResult(rows[k], RowScore(Similarity(rows[k], qv)))]
        exact_matches == ExactMatches(movies)
    IN  [movies |-> movies,
         exact_matches |-> exact_matches,
         message |-> Message(exact_matches, movies, empty_message)]

SemanticSearchRequest(query, limit) == [query |-> query, limit |-> limit]

HybridSearchRequest(query, genre, directors, stars, min_rating, max_rating, min_runtime, max_runtime, limit) ==
    [query |-> query, genre |-> genre, directors |-> directors,
     stars |-> stars, min_rating |-> min_rating, max_rating |-> max_rating,
     min_runtime |-> min_runtime, max_runtime |-> max_runtime,
     limit |-> limit]

\* WHERE plot_embedding IS NOT NULL
semantic_where == {i \in DOMAIN catalog : catalog[i].plot_embedding.kind # "null"}

\* the WHERE clause with runtime >= 0 added when min_runtime is absent
hybrid_where_min_runtime_defaulted(request) ==
    LET w0 == {i \in DOMAIN catalog : catalog[i].plot_embedding.kind # "null"}
        w1 == FilterILike(w0, "genre", request.genre)
        w2 == FilterILike(w1, "directors", request.directors)
        w3 == FilterILike(w2, "stars", request.stars)
        w4 == FilterGe(w3, "rating", request.min_rating)
        w5 == FilterLe(w4, "rating", request.max_rating)
        w6 == FilterGe(w5, "runtime",
                       IF request.min_runtime = Null THEN Some(0)
                                                     ELSE request.min_runtime)
        w7 == FilterLe(w6, "runtime", request.max_runtime)
    IN  w7

\* " AND ".join(where_clauses)
hybrid_where(request) ==
    LET w0 == {i \in DOMAIN catalog : catalog[i].plot_embedding.kind # "null"}
        w1 == FilterILike(w0, "genre", request.genre)
        w2 == FilterILike(w1, "directors", request.directors)
        w3 == FilterILike(w2, "stars", request.stars)
        w4 == FilterGe(w3, "rating", request.min_rating)
        w5 == FilterLe(w4, "rating", request.max_rating)
        w6 == FilterGe(w5, "runtime", request.min_runtime)
        w7 == FilterLe(w6, "runtime", request.max_runtime)
    IN  w7

SemanticSearchResponse(result, request) ==
    [status |-> 200,
     results |-> result.movies,
     query |-> request.query,
     limit |-> request.limit,
     exact_matches |-> result.exact_matches,
     message |-> result.message]

\* how the embedding of the query ends: a blank text needs no model; for
\* another text SentenceTransformer(...) may raise when the model is not
\* loaded yet, and model.encode may raise
EmbeddingOutcomes(text) ==
    IF Blank(text) THEN {"ok"}
    ELSE IF model = Null THEN {"ok", "load_failed", "encode_failed"}
    ELSE {"ok", "encode_failed"}

\* how self.db.execute ends; it is not reached when the embedding failed
RankedStoreOutcomes(outcome) ==
    IF outcome = "ok" THEN {"ok", "failed"} ELSE {"not_called"}

\* the failure answered with the results for the zero vector
EmbeddingFailedZeroVector(outcome, detail) ==
    /\ model' = IF outcome = "load_failed" THEN model ELSE ModelAfterGet(0)
    /\ loads' = IF outcome = "load_failed" THEN loads ELSE LoadsAfterGet
    /\ matched' = semantic_where
    /\ \E rows \in NearestRows(semantic_where, "zero", call'.req.limit) :
          resp' = SemanticSearchResponse(SearchResult(rows, "zero", detail),
                                         call'.req)

\* generate_embedding raised at the first statement of the service
\* method: the exception is logged and re-raised by the service, and the
\* endpoint turns it into HTTPException(500); the SQL is never executed.
\* A failed load leaves _model None.
EmbeddingFailed(outcome, detail) ==
    /\ model' = IF outcome = "load_failed" THEN model ELSE ModelAfterGet(0)
    /\ loads' = IF outcome = "load_failed" THEN loads ELSE LoadsAfterGet
    /\ matched' = {}
    /\ resp' = HTTP500(detail)

\* POST /search/semantic
semantic_search(request) ==
    /\ call = NoCall
    /\ \E outcome \in EmbeddingOutcomes(request.query) :
       \E store \in RankedStoreOutcomes(outcome) :
          /\ call' = [op |-> "semantic", req |-> request,
                      embedding |-> outcome, store |-> store,
                      statements |-> StatementsSent(request, store)]
          /\ IF outcome # "ok"
             THEN EmbeddingFailed(outcome, "Semantic search failed")
             ELSE /\ generate_embedding(request.query)
                  /\ IF store = "ok"
                     THEN /\ matched' = semantic_where
                          /\ \E rows \in NearestRows(semantic_where,
                                                     QueryVector(request.query),
                                                     request.limit) :
                                resp' = SemanticSearchResponse(
                                            SearchResult(rows,
                                                         QueryVector(request.query),
                                                         "No movies found"),
                                            request)
                     ELSE StoreFailed("Semantic search failed")
    /\ UNCHANGED <<catalog, pc, seen, entry>>

\* POST /search/hybrid
hybrid_search(request) ==
    /\ call = NoCall
    /\ \E outcome \in EmbeddingOutcomes(request.query) :
       \E store \in RankedStoreOutcomes(outcome) :
          /\ call' = [op |-> "hybrid", req |-> request,
                      embedding |-> outcome, store |-> store,
                      statements |-> StatementsSent(request, store)]
          /\ IF outcome # "ok"
             THEN EmbeddingFailed(outcome, "Hybrid search failed")
             ELSE /\ generate_embedding(request.query)
                  /\ IF store = "ok"
                     THEN /\ matched' = hybrid_where(request)
                          /\ \E rows \in NearestRows(hybrid_where(request),
                                                     QueryVector(request.query),
                                                     request.limit) :
                                resp' = SemanticSearchResponse(
                                            SearchResult(rows,
                                                         QueryVector(request.query),
                                                         "No movies found matching your criteria"),
                                            request)
                     ELSE StoreFailed("Hybrid search failed")
    /\ UNCHANGED <<catalog, pc, seen, entry>>

----------------------------------------------------------------------------
(* GET /search/genres (StructuralSearchService.get_genres) *)

\* s.split(sep): the pieces of s between the separators, in order
RECURSIVE Split(_, _)
Split(s, sep) ==
    IF \A k \in 1..Len(s) : s[k] # sep THEN <<s>>
    ELSE LET k == CHOOSE i \in 1..Len(s) :
                      s[i] = sep /\ \A j \in 1..(i - 1) : s[j] # sep
         IN  <<SubSeq(s, 1, k - 1)>> \o Split(SubSeq(s, k + 1, Len(s)), sep)

\* s.strip()
RECURSIVE Strip(_)
Strip(s) ==
    IF s = <<>> THEN s
    ELSE IF s[1] = " " THEN Strip(Tail(s))
    ELSE IF s[Len(s)] = " " THEN Strip(SubSeq(s, 1, Len(s) - 1))
    ELSE s

\* the tags the loop counts for one genre string, in order: the stripped
\* pieces that are not empty (an empty genre string is skipped)
GenreTags(genre_str) ==
    IF genre_str = <<>> THEN <<>>
    ELSE LET pieces == Split(genre_str, ",")
             stripped == [k \in 1..Len(pieces) |-> Strip(pieces[k])]
         IN  SelectSeq(stripped, LAMBDA g : g # <<>>)

\* the orders in which the query may return rows (it has no ORDER BY)
RECURSIVE RowOrders(_)
RowOrders(rows) ==
    IF rows = {} THEN {<<>>}
    ELSE UNION { { <<m>> \o t : t \in RowOrders(rows \ {m}) } : m \in rows }

\* every tag the loop visits, in order, for the rows in the given order
RECURSIVE TagOccurrences(_)
TagOccurrences(order) ==
    IF order = <<>> THEN <<>>
    ELSE GenreTags(Val(catalog[Head(order)].genre)) \o TagOccurrences(Tail(order))

\* genre_counts[genre] = genre_counts.get(genre, 0) + 1, once per visit
CountVisits(occ, g) == Cardinality({k \in 1..Len(occ) : occ[k] = g})

\* the keys of genre_counts in insertion order: each tag at its first visit
DictKeys(occ) ==
    SelectSeq([k \in 1..Len(occ) |->
                  IF \E j \in 1..(k - 1) : occ[j] = occ[k] THEN <<>> ELSE occ[k]],
              LAMBDA g : g # <<>>)

\* sorted(items, key=count, reverse=True): stable, so equal counts keep
\* their insertion order
RECURSIVE SortedByCount(_)
SortedByCount(items) ==
    IF items = <<>> THEN <<>>
    ELSE LET k == CHOOSE i \in 1..Len(items) :
                      /\ \A j \in 1..Len(items) : items[j].count <= items[i].count
                      /\ \A j \in 1..(i - 1) : items[j].count < items[i].count
         IN  <<items[k]>> \o
             SortedByCount([j \in 1..(Len(items) - 1) |->
                              IF j < k THEN items[j] ELSE items[j + 1]])

\* the list of GenreItem the service returns for one row order
get_genres(order) ==
    LET occ == TagOccurrences(order)
        keys == DictKeys(occ)
    IN  SortedByCount([k \in 1..Len(keys) |->
                          [name |-> keys[k],
                           count |-> CountVisits(occ, keys[k])]])

\* the endpoint; the query selects the rows whose genre is not NULL
GetGenres ==
    /\ call = NoCall
    /\ call' = [op |-> "genres", req |-> <<>>]
    /\ matched' = {i \in DOMAIN catalog : catalog[i].genre # Null}
    /\ \E order \in RowOrders({i \in DOMAIN catalog : catalog[i].genre # Null}) :
          resp' = [status |-> 200, genres |-> get_genres(order)]
    /\ UNCHANGED <<catalog, model, loads, pc, seen, entry>>

----------------------------------------------------------------------------
(* GET /search/stats (StructuralSearchService.get_stats) *)

\* func.min / func.max over a column: NULL when no row has a value
ColumnValues(column) ==
    {Val(catalog[i][column]) : i \in {j \in DOMAIN catalog : catalog[j][column] # Null}}

SqlMin(column) ==
    IF ColumnValues(column) = {} THEN Null
    ELSE Some(CHOOSE v \in ColumnValues(column) :
                 \A w \in ColumnValues(column) : v <= w)

SqlMax(column) ==
    IF ColumnValues(column) = {} THEN Null
    ELSE Some(CHOOSE v \in ColumnValues(column) :
                 \A w \in ColumnValues(column) : v >= w)

\* x or 0 whatever the default
OrZero(x, default) == IF x = Null \/ Val(x) = 0 THEN 0 ELSE Val(x)

\* x or default: None and 0 are both false
OrDefault(x, default) == IF x = Null \/ Val(x) = 0 THEN default ELSE Val(x)

\* the MovieStats the service returns; ratings in tenths
get_stats ==
    [status |-> 200,
     min_rating |-> OrDefault(SqlMin("rating"), 0),
     max_rating |-> OrDefault(SqlMax("rating"), 100),
     min_runtime |-> OrDefault(SqlMin("runtime"), 0),
     max_runtime |-> OrDefault(SqlMax("runtime"), 300),
     total_movies |-> OrDefault(Some(Len(catalog)), 0)]

\* the endpoint with a statement that deletes the last row
GetStatsDeleting ==
    /\ call = NoCall
    /\ call' = [op |-> "stats", req |-> <<>>]
    /\ matched' = {}
    /\ resp' = get_stats
    /\ catalog' = SubSeq(catalog, 1, Len(catalog) - 1)
    /\ UNCHANGED <<model, loads, pc, seen, entry>>

\* the endpoint
GetStats ==
    /\ call = NoCall
    /\ call' = [op |-> "stats", req |-> <<>>]
    /\ matched' = {}
    /\ resp' = get_stats
    /\ UNCHANGED <<catalog, model, loads, pc, seen, entry>>

----------------------------------------------------------------------------
(* Inputs of the handlers *)

SkipValues == {0, 1, 3}

LimitValues == {1, 3}

\* one query text the model embeds, and one that is blank although it has
\* the three characters SemanticSearchRequest asks for
QueryTexts == { <<"a","b","c">>, <<" "," "," ">> }

\* requests that vary sorting and pagination over a few filters
StructuralRequests ==
    { StructuralSearchRequest(Null, Null, Null, Null, lo, Null, Null, Null,
                              sb, so, sk, li) :
        lo \in {Null, Some(90)},
        sb \in SortBy, so \in SortOrder, sk \in SkipValues, li \in LimitValues }

\* the filter values the requests below combine: text filters on
\* directors and stars, rating bounds, runtime bounds
PeopleFilters == { <<Null, Null>>, <<Some(<<"a">>), Null>>, <<Null, Some(<<"B">>)>> }

RatingFilters ==
    { <<Null, Null>>, <<Some(0), Null>>, <<Some(90), Null>>,
      <<Null, Some(90)>>, <<Some(90), Some(90)>> }

RuntimeFilters == { <<Null, Null>>, <<Some(142), Null>>, <<Null, Some(142)>> }

\* requests that vary every filter, with the default sorting and pagination
FilterRequests ==
    { StructuralSearchRequest(q, g, ds[1], ds[2], r[1], r[2], rt[1], rt[2],
                              "rating", "desc", 0, 10) :
        q \in {Null, Some(<<>>), Some(<<"_">>)},
        g \in {Null, Some(<<"A">>), Some(<<"%">>)},
        ds \in PeopleFilters, r \in RatingFilters, rt \in RuntimeFilters }

SemanticRequests ==
    { SemanticSearchRequest(q, li) : q \in QueryTexts, li \in LimitValues }

HybridRequests ==
    { HybridSearchRequest(q, g, Null, Null, lo, Null, Null, Null, li) :
        q \in QueryTexts, g \in {Null, Some(<<"a">>)},
        lo \in {Null, Some(90)}, li \in LimitValues }

HybridFilterRequests ==
    { HybridSearchRequest(<<"a","b","c">>, g, ds[1], ds[2], r[1], r[2],
                          rt[1], rt[2], 10) :
        g \in {Null, Some(<<"A">>), Some(<<"%">>)},
        ds \in PeopleFilters, r \in RatingFilters, rt \in RuntimeFilters }

----------------------------------------------------------------------------
(* The search service: the async handlers run one at a time on the event  *)
(* loop, each to its end                                                   *)

NumCallers == 2

Callers == 1..NumCallers

NoEntry == [fn |-> "none", text |-> <<>>]

Init ==
    /\ catalog \in Catalogs
    /\ call = NoCall
    /\ matched = {}
    /\ resp = NoResponse
    /\ model = Null
    /\ loads = 0
    /\ pc = [c \in Callers |-> "idle"]
    /\ seen = [c \in Callers |-> Null]
    /\ entry = [c \in Callers |-> NoEntry]

StructuralSearch == \E request \in StructuralRequests : structural_search(request)

SemanticSearch == \E request \in SemanticRequests : semantic_search(request)

HybridSearch == \E request \in HybridRequests : hybrid_search(request)

\* the response is sent and the server waits for the next request
Respond ==
    /\ call # NoCall
    /\ call' = NoCall
    /\ matched' = {}
    /\ resp' = NoResponse
    /\ UNCHANGED <<catalog, model, loads, pc, seen, entry>>

Next ==
    \/ StructuralSearch
    \/ SemanticSearch
    \/ HybridSearch
    \/ GetGenres
    \/ GetStats
    \/ Respond

Spec == Init /\ [][Next]_vars

\* the same handlers over every combination of filters
StructuralFilterSearch == \E request \in FilterRequests : structural_search(request)

HybridFilterSearch == \E request \in HybridFilterRequests : hybrid_search(request)

NextFilters == StructuralFilterSearch \/ HybridFilterSearch \/ Respond

SpecFilters == Init /\ [][NextFilters]_vars

----------------------------------------------------------------------------
(* Request validation (the Field constraints of models.py): FastAPI       *)
(* validates the body against the request model before the endpoint       *)
(* function is called, and answers 422 when a constraint fails            *)

\* Optional[float] = Field(None, ge=0, le=10), in tenths
RatingFieldOK(x) == x = Null \/ (Val(x) >= 0 /\ Val(x) <= 100)

\* min_runtime: Optional[int] = Field(None, ge=0)
MinRuntimeFieldOK(x) == x = Null \/ Val(x) >= 0

\* max_runtime: Optional[int] = Field(None): no constraint
MaxRuntimeFieldOK(x) == TRUE

\* skip: int = Field(0, ge=0)
SkipFieldOK(x) == x >= 0

\* limit: int = Field(10, ge=1, le=100)
LimitFieldOK(x) == x >= 1 /\ x <= 100

\* query: str = Field(..., min_length=3): required
QueryFieldOK(request) ==
    "query" \in DOMAIN request /\ Len(request.query) >= 3

ValidStructural(request) ==
    /\ RatingFieldOK(request.min_rating)
    /\ RatingFieldOK(request.max_rating)
    /\ MinRuntimeFieldOK(request.min_runtime)
    /\ MaxRuntimeFieldOK(request.max_runtime)
    /\ request.sort_by \in SortBy
    /\ request.sort_order \in SortOrder
    /\ SkipFieldOK(request.skip)
    /\ LimitFieldOK(request.limit)

ValidSemantic(request) ==
    /\ QueryFieldOK(request)
    /\ LimitFieldOK(request.limit)

ValidHybrid(request) ==
    /\ QueryFieldOK(request)
    /\ RatingFieldOK(request.min_rating)
    /\ RatingFieldOK(request.max_rating)
    /\ MinRuntimeFieldOK(request.min_runtime)
    /\ MaxRuntimeFieldOK(request.max_runtime)
    /\ LimitFieldOK(request.limit)

\* the 422 answer: the endpoint function is not called
RequestRejected(op, request) ==
    /\ call = NoCall
    /\ call' = [op |-> op, req |-> request, embedding |-> "not_called",
                store |-> "not_called", statements |-> 0]
    /\ matched' = {}
    /\ resp' = [status |-> 422]
    /\ UNCHANGED <<catalog, model, loads, pc, seen, entry>>

PostStructural(request) ==
    IF ValidStructural(request) THEN structural_search(request)
    ELSE RequestRejected("structural", request)

PostSemantic(request) ==
    IF ValidSemantic(request) THEN semantic_search(request)
    ELSE RequestRejected("semantic", request)

PostHybrid(request) ==
    IF ValidHybrid(request) THEN hybrid_search(request)
    ELSE RequestRejected("hybrid", request)

\* values at and next to the limits of the constraints
RatingEdges == {Null, Some(-1), Some(0), Some(100), Some(101)}

RuntimeEdges == {Null, Some(-1), Some(0)}

LimitEdges == {0, 1, 100, 101}

\* requests with one field at a time moved to an edge
EdgeStructuralRequests ==
    { StructuralSearchRequest(Null, Null, Null, Null, lo, hi, Null, Null,
                              "rating", "desc", 0, 10) :
        lo \in RatingEdges, hi \in {Null, Some(-1), Some(101)} }
    \cup
    { StructuralSearchRequest(Null, Null, Null, Null, Null, Null, rlo, rhi,
                              "rating", "desc", 0, 10) :
        rlo \in RuntimeEdges, rhi \in RuntimeEdges }
    \cup
    { StructuralSearchRequest(Null, Null, Null, Null, Null, Null, Null, Null,
                              "rating", "desc", sk, li) :
        sk \in {-1, 0}, li \in LimitEdges }

EdgeSemanticRequests ==
    { SemanticSearchRequest(q, li) :
        q \in {<<>>, <<"a","b">>, <<"a","b","c">>}, li \in LimitEdges }
    \cup { [limit |-> li] : li \in {1, 101} }

EdgeHybridRequests ==
    { HybridSearchRequest(q, Null, Null, Null, lo, Null, Null, rhi, 10) :
        q \in {<<"a","b">>, <<"a","b","c">>},
        lo \in RatingEdges, rhi \in RuntimeEdges }
    \cup
    { HybridSearchRequest(<<"a","b","c">>, Null, Null, Null, Null, hi, rlo, Null, li) :
        hi \in {Null, Some(101)}, rlo \in RuntimeEdges, li \in LimitEdges }
    \cup
    { [genre |-> Null, directors |-> Null, stars |-> Null, min_rating |-> Null,
       max_rating |-> Null, min_runtime |-> Null, max_runtime |-> Null,
       limit |-> 10] }

EdgeStructuralSearch == \E request \in EdgeStructuralRequests : PostStructural(request)

EdgeSemanticSearch == \E request \in EdgeSemanticRequests : PostSemantic(request)

EdgeHybridSearch == \E request \in EdgeHybridRequests : PostHybrid(request)

NextValidation ==
    EdgeStructuralSearch \/ EdgeSemanticSearch \/ EdgeHybridSearch \/ Respond

SpecValidation == Init /\ [][NextValidation]_vars

----------------------------------------------------------------------------
(* The embedding provider under concurrent callers: each caller runs      *)
(* embedding.py line by line, and callers interleave between lines         *)

\* what a caller may call: get_model(), generate_embedding(text) or
\* batch_generate_embeddings(texts)
Entries ==
    { [fn |-> "get_model", text |-> <<>>],
      [fn |-> "generate_embedding", text |-> <<"a","b","c">>],
      [fn |-> "generate_embedding", text |-> <<" ">>],
      [fn |-> "batch_generate_embeddings", text |-> << <<"a","b","c">>, <<>> >>] }

\* a caller enters one of the functions
Enter(c) ==
    /\ pc[c] = "idle"
    /\ \E e \in Entries :
          /\ entry' = [entry EXCEPT ![c] = e]
          /\ pc' = [pc EXCEPT ![c] =
                      IF e.fn = "generate_embedding" THEN "line35" ELSE "line17"]
    /\ UNCHANGED <<catalog, call, matched, resp, model, loads, seen>>

\* generate_embedding, line 35: a blank text returns the zero vector
\* without get_model()
CheckBlank(c) ==
    /\ pc[c] = "line35"
    /\ pc' = [pc EXCEPT ![c] =
                IF Blank(entry[c].text) THEN "return" ELSE "line17"]
    /\ UNCHANGED <<catalog, call, matched, resp, model, loads, seen, entry>>

\* get_model, line 17: if _model is None
TestModel(c) ==
    /\ pc[c] = "line17"
    /\ seen' = [seen EXCEPT ![c] = model]
    /\ pc' = [pc EXCEPT ![c] = IF model = Null THEN "line20" ELSE "line22"]
    /\ UNCHANGED <<catalog, call, matched, resp, model, loads, entry>>

\* get_model, line 20, right-hand side: SentenceTransformer(...) is
\* constructed
LoadModel(c) ==
    /\ pc[c] = "line20"
    /\ loads' = loads + 1
    /\ pc' = [pc EXCEPT ![c] = "line20store"]
    /\ UNCHANGED <<catalog, call, matched, resp, model, seen, entry>>

\* get_model, line 20, the assignment to the global _model
StoreModel(c) ==
    /\ pc[c] = "line20store"
    /\ model' = Some(c)
    /\ pc' = [pc EXCEPT ![c] = "line22"]
    /\ UNCHANGED <<catalog, call, matched, resp, loads, seen, entry>>

\* get_model, line 22: return _model
ReturnModel(c) ==
    /\ pc[c] = "line22"
    /\ seen' = [seen EXCEPT ![c] = model]
    /\ pc' = [pc EXCEPT ![c] =
                IF entry[c].fn = "get_model" THEN "return" ELSE "encode"]
    /\ UNCHANGED <<catalog, call, matched, resp, model, loads, entry>>

\* model.encode(...) on the handle get_model() returned
Encode(c) ==
    /\ pc[c] = "encode"
    /\ pc' = [pc EXCEPT ![c] = "return"]
    /\ UNCHANGED <<catalog, call, matched, resp, model, loads, seen, entry>>

\* the function returns to the caller
Return(c) ==
    /\ pc[c] = "return"
    /\ pc' = [pc EXCEPT ![c] = "idle"]
    /\ entry' = [entry EXCEPT ![c] = NoEntry]
    /\ seen' = [seen EXCEPT ![c] = Null]
    /\ UNCHANGED <<catalog, call, matched, resp, model, loads>>

InitConc ==
    /\ catalog = <<>>
    /\ call = NoCall
    /\ matched = {}
    /\ resp = NoResponse
    /\ model = Null
    /\ loads = 0
    /\ pc = [c \in Callers |-> "idle"]
    /\ seen = [c \in Callers |-> Null]
    /\ entry = [c \in Callers |-> NoEntry]

NextConc ==
    \E c \in Callers :
        \/ Enter(c)
        \/ CheckBlank(c)
        \/ TestModel(c)
        \/ LoadModel(c)
        \/ StoreModel(c)
        \/ ReturnModel(c)
        \/ Encode(c)
        \/ Return(c)

SpecConc == InitConc /\ [][NextConc]_vars

----------------------------------------------------------------------------
(* The embedding provider called directly, one call at a time: the values *)
(* generate_embedding and batch_generate_embeddings return                 *)

EMBEDDING_DIM == 384

\* longest list of texts given to batch_generate_embeddings
MaxTexts == 3

BatchSizes == {1, 2}

\* [0.0] * 384
ZeroVector == [len |-> EMBEDDING_DIM, zero |-> TRUE, of |-> <<>>]

\* model.encode(text).tolist(): the encoder is deterministic, its vector
\* is known by the text it was given
Encoding(text) == [len |-> EMBEDDING_DIM, zero |-> FALSE, of |-> text]

\* not text or not text.strip(), of a text that may be None
NotText(x) == x = Null \/ Blank(Val(x))

\* what generate_embedding(x) returns, and the texts it hands to
\* model.encode
EmbeddingOfText(x) ==
    IF NotText(x)
    THEN [embedding |-> ZeroVector, encoded |-> <<>>]
    ELSE [embedding |-> Encoding(Val(x)), encoded |-> <<Val(x)>>]

\* t if t else "": the placeholder without the strip() test
ProcessedTextNoStrip(t) == IF t # Null /\ Val(t) # <<>> THEN Val(t) ELSE <<>>

\* t if t and t.strip() else ""
ProcessedText(t) == IF t # Null /\ ~Blank(Val(t)) THEN Val(t) ELSE <<>>

\* model.encode(texts, batch_size=batch_size): the encoder takes the texts
\* batch_size at a time and returns one vector per text, in order
RECURSIVE EncodeAll(_, _)
EncodeAll(texts, batch_size) ==
    IF texts = <<>> THEN <<>>
    ELSE LET n == Min2(batch_size, Len(texts))
         IN  [k \in 1..n |-> Encoding(texts[k])]
                \o EncodeAll(SubSeq(texts, n + 1, Len(texts)), batch_size)

\* what batch_generate_embeddings(texts, batch_size) returns, and the texts
\* it hands to model.encode
batch_generate_embeddings(texts, batch_size) ==
    LET processed_texts == [i \in 1..Len(texts) |-> ProcessedText(texts[i])]
        embeddings == EncodeAll(processed_texts, batch_size)
        result == [i \in 1..Len(texts) |->
                     IF processed_texts[i] = <<>> THEN ZeroVector
                                                  ELSE embeddings[i]]
    IN  [embeddings |-> result, encoded |-> processed_texts]

\* the texts a caller passes: None, "", " ", "a", "abc"
EmbedTexts ==
    {Null, Some(<<>>), Some(<<" ">>), Some(<<"a">>), Some(<<"a","b","c">>)}

TextLists == UNION { [1..n -> EmbedTexts] : n \in 0..MaxTexts }

\* a call of generate_embedding(x) from the idle state; an exception of
\* get_model() or model.encode reaches the caller
GenerateEmbedding ==
    \E x \in EmbedTexts :
    \E outcome \in EmbeddingOutcomes(IF x = Null THEN <<>> ELSE Val(x)) :
        /\ call = NoCall
        /\ call' = [op |-> "generate_embedding", req |-> x,
                    embedding |-> outcome]
        /\ IF outcome = "ok"
           THEN /\ generate_embedding(IF x = Null THEN <<>> ELSE Val(x))
                /\ resp' = [status |-> 200,
                            embedding |-> EmbeddingOfText(x).embedding,
                            encoded |-> EmbeddingOfText(x).encoded]
                /\ matched' = {}
           ELSE EmbeddingFailed(outcome, outcome)
        /\ UNCHANGED <<catalog, pc, seen, entry>>

\* how a batch call ends: get_model() and model.encode are called
\* whatever the texts are, and either may raise
BatchOutcomes ==
    IF model = Null THEN {"ok", "load_failed", "encode_failed"}
    ELSE {"ok", "encode_failed"}

\* a call of batch_generate_embeddings(texts, batch_size): get_model() is
\* called first, whatever the texts
BatchGenerateEmbeddings ==
    \E texts \in TextLists : \E batch_size \in BatchSizes :
    \E outcome \in BatchOutcomes :
        /\ call = NoCall
        /\ call' = [op |-> "batch_generate_embeddings",
                    req |-> [texts |-> texts, batch_size |-> batch_size],
                    embedding |-> outcome]
        /\ IF outcome = "ok"
           THEN /\ model' = ModelAfterGet(0)
                /\ loads' = LoadsAfterGet
                /\ resp' = [status |-> 200,
                            embeddings |-> batch_generate_embeddings(texts, batch_size).embeddings,
                            encoded |-> batch_generate_embeddings(texts, batch_size).encoded]
                /\ matched' = {}
           ELSE EmbeddingFailed(outcome, outcome)
        /\ UNCHANGED <<catalog, pc, seen, entry>>

NextEmbed == GenerateEmbedding \/ BatchGenerateEmbeddings \/ Respond

SpecEmbed == InitConc /\ [][NextEmbed]_vars

----------------------------------------------------------------------------
(* Claims *)

\* C1: when callers invoke get_model() concurrently while _model is None,
\* the SentenceTransformer is constructed exactly once: no execution
\* performs two loads.
C1_ModelLoadedOnce == loads <= 1


StructuralOK == call.op = "structural" /\ resp.status = 200

RankedOK == call.op \in {"semantic", "hybrid"} /\ resp.status = 200

\* the filter predicate of a structural request on one row: every filter
\* the request carries holds of the row
MatchesFilters(row, req) ==
    /\ Truthy(req.query) => ILike(row.movie_name, Wrap(Val(req.query)))
    /\ Truthy(req.genre) => ILike(row.genre, Wrap(Val(req.genre)))
    /\ Truthy(req.directors) => ILike(row.directors, Wrap(Val(req.directors)))
    /\ Truthy(req.stars) => ILike(row.stars, Wrap(Val(req.stars)))
    /\ req.min_rating # Null =>
          row.rating # Null /\ Val(row.rating) >= Val(req.min_rating)
    /\ req.max_rating # Null =>
          row.rating # Null /\ Val(row.rating) <= Val(req.max_rating)
    /\ req.min_runtime # Null =>
          row.runtime # Null /\ Val(row.runtime) >= Val(req.min_runtime)
    /\ req.max_runtime # Null =>
          row.runtime # Null /\ Val(row.runtime) <= Val(req.max_runtime)

\* C2: the total of a structural search is the number of rows that satisfy
\* the request's filters, and it is the total of the request with the same
\* filters and the default skip, limit, sort_by and sort_order (so all
\* requests with these filters report one total).
C2_TotalCountsMatches ==
    StructuralOK =>
        /\ resp.total =
             Cardinality({i \in DOMAIN catalog : MatchesFilters(catalog[i], call.req)})
        /\ \A out \in execute_search([call.req EXCEPT !.skip = 0, !.limit = 10,
                                                      !.sort_by = "rating",
                                                      !.sort_order = "desc"]) :
              out.total = resp.total

C2_Witness ==
    /\ StructuralOK
    /\ call.req.min_rating # Null
    /\ call.req.skip = 1
    /\ call.req.limit = 1
    /\ resp.total = 3
    /\ Len(resp.results) = 1

\* C3: the page of a structural search has min(limit, max(0, total - skip))
\* results and has_more is (skip + len(results) < total); a skip at or
\* beyond the total gives an empty page with has_more false.
C3_PageLengthAndHasMore ==
    StructuralOK =>
        /\ Len(resp.results) =
             Min2(call.req.limit, Max2(0, resp.total - call.req.skip))
        /\ resp.has_more <=> (call.req.skip + Len(resp.results) < resp.total)
        /\ call.req.skip >= resp.total =>
              resp.results = <<>> /\ ~resp.has_more

C3_Witness ==
    /\ StructuralOK
    /\ resp.total = 2
    /\ call.req.skip = 3
    /\ resp.results = <<>>
    /\ ~resp.has_more

\* needle occurs in hay as a run of consecutive characters
Contains(hay, needle) ==
    \E k \in 1..(Len(hay) - Len(needle) + 1) :
        SubSeq(hay, k, k + Len(needle) - 1) = needle

\* the row passes a text filter that is present: the lowercased filter
\* string is a substring of the lowercased column value
PassesSubstring(col, value) ==
    value # Null => (col # Null /\ Contains(Lower(Val(col)), Lower(Val(value))))

\* the structural predicate as the conjunction of the filters present
SubstringPredicate(row, req) ==
    /\ PassesSubstring(row.movie_name, req.query)
    /\ PassesSubstring(row.genre, req.genre)
    /\ PassesSubstring(row.directors, req.directors)
    /\ PassesSubstring(row.stars, req.stars)
    /\ req.min_rating # Null =>
          row.rating # Null /\ Val(row.rating) >= Val(req.min_rating)
    /\ req.max_rating # Null =>
          row.rating # Null /\ Val(row.rating) <= Val(req.max_rating)
    /\ req.min_runtime # Null =>
          row.runtime # Null /\ Val(row.runtime) >= Val(req.min_runtime)
    /\ req.max_runtime # Null =>
          row.runtime # Null /\ Val(row.runtime) <= Val(req.max_runtime)

\* C4: a row satisfies the structural predicate iff it satisfies every
\* filter present in the request (name, genre, directors, stars by
\* substring, rating and runtime by inclusive bounds); a request without
\* filters matches every row.
C4_PredicateIsConjunctionOfFilters ==
    StructuralOK =>
        matched = {i \in DOMAIN catalog : SubstringPredicate(catalog[i], call.req)}

NoRangeFilter(req) ==
    /\ req.min_rating = Null
    /\ req.max_rating = Null
    /\ req.min_runtime = Null
    /\ req.max_runtime = Null

\* C5: a row passes a name, genre, directors or stars filter, in structural
\* and in hybrid search, iff the lowercased filter string is a substring of
\* the lowercased column value; no character of it acts as a wildcard.
C5_TextFiltersAreSubstringTests ==
    /\ (StructuralOK /\ NoRangeFilter(call.req)) =>
          \A i \in DOMAIN catalog :
              i \in matched <=>
                  /\ PassesSubstring(catalog[i].movie_name, call.req.query)
                  /\ PassesSubstring(catalog[i].genre, call.req.genre)
                  /\ PassesSubstring(catalog[i].directors, call.req.directors)
                  /\ PassesSubstring(catalog[i].stars, call.req.stars)
    /\ (call.op = "hybrid" /\ resp.status = 200 /\ NoRangeFilter(call.req)) =>
          \A i \in semantic_where :
              i \in matched <=>
                  /\ PassesSubstring(catalog[i].genre, call.req.genre)
                  /\ PassesSubstring(catalog[i].directors, call.req.directors)
                  /\ PassesSubstring(catalog[i].stars, call.req.stars)

\* C6: in the page of a structural search the non-null values of the sort
\* column are monotonic in the requested direction, and every row whose sort
\* column is null comes after every row whose sort column is not null.
C6_SortedWithNullsLast ==
    StructuralOK =>
        \A k \in 1..Len(resp.results) : \A l \in 1..Len(resp.results) :
            k < l =>
                LET a == catalog[resp.results[k].id][call.req.sort_by]
                    b == catalog[resp.results[l].id][call.req.sort_by]
                IN  /\ a = Null => b = Null
                    /\ (a # Null /\ b # Null) =>
                          IF call.req.sort_order = "asc"
                          THEN ~KeyLess(call.req.sort_by, Val(b), Val(a))
                          ELSE ~KeyLess(call.req.sort_by, Val(a), Val(b))

C6_Witness ==
    /\ StructuralOK
    /\ call.req.sort_order = "desc"
    /\ call.req.sort_by = "rating"
    /\ Len(resp.results) = 3
    /\ catalog[resp.results[1].id].rating = Some(93)
    /\ catalog[resp.results[2].id].rating = Some(90)
    /\ catalog[resp.results[3].id].rating = Null

\* C7: the sort keys a structural request accepts are exactly rating,
\* runtime, movie_name and metascore, and for every accepted sort key the
\* search answers with a page and a total instead of raising.
C7_EverySortKeyGivesAResult ==
    (call.op = "structural" /\ call.store = "ok") =>
        /\ call.req.sort_by \in {"rating", "runtime", "movie_name", "metascore"}
        /\ resp.status = 200

\* C8: exact_matches of a semantic or hybrid response is true iff some
\* returned result has a similarity of at least 0.6: one result at exactly
\* 0.6 gives true, one result at 0.5999 gives false, no result gives false.
C8_ExactMatchesIffThresholdReached ==
    RankedOK =>
        /\ resp.exact_matches <=>
              \E k \in 1..Len(resp.results) :
                  /\ resp.results[k].similarity_score.kind = "num"
                  /\ resp.results[k].similarity_score.v >= 6000
        /\ (Len(resp.results) = 1 /\ resp.results[1].similarity_score = Score(6000))
              => resp.exact_matches
        /\ (Len(resp.results) = 1 /\ resp.results[1].similarity_score = Score(5999))
              => ~resp.exact_matches
        /\ resp.results = <<>> => ~resp.exact_matches

C8_Witness ==
    /\ RankedOK
    /\ Len(resp.results) = 1
    /\ resp.results[1].similarity_score = Score(6000)
    /\ resp.exact_matches

\* C9: the message follows exact_matches first, then the emptiness of the
\* results: the found message, else the similar-movies message, else the
\* empty message of the endpoint; no other message is produced.
C9_MessageByPriority ==
    RankedOK =>
        /\ resp.exact_matches =>
              resp.message = "Movies found matching your query"
        /\ (~resp.exact_matches /\ resp.results # <<>>) =>
              resp.message = "No exact matches found, but here are some similar movies"
        /\ (~resp.exact_matches /\ resp.results = <<>> /\ call.op = "semantic") =>
              resp.message = "No movies found"
        /\ (~resp.exact_matches /\ resp.results = <<>> /\ call.op = "hybrid") =>
              resp.message = "No movies found matching your criteria"
        /\ resp.message = "Movies found matching your query" =>
              (resp.exact_matches /\ resp.results # <<>>)

C9_Witness ==
    /\ RankedOK
    /\ call.op = "hybrid"
    /\ DOMAIN catalog # {}
    /\ resp.results = <<>>
    /\ resp.message = "No movies found matching your criteria"

\* C10: semantic_search returns exactly min(limit, E) results, E the number
\* of rows with a non-null embedding; it returns no row with a null
\* embedding; and no omitted embedded row is strictly more similar to the
\* query than a returned one.
C10_TopLimitOfEmbeddedRows ==
    (call.op = "semantic" /\ resp.status = 200) =>
        LET embedded == {i \in DOMAIN catalog :
                            catalog[i].plot_embedding.kind # "null"}
            returned == {resp.results[k].id : k \in 1..Len(resp.results)}
            qv == QueryVector(call.req.query)
        IN  /\ Len(resp.results) = Min2(call.req.limit, Cardinality(embedded))
            /\ returned \subseteq embedded
            /\ \A j \in embedded \ returned : \A i \in returned :
                  ~( /\ Similarity(j, qv).kind = "num"
                     /\ Similarity(i, qv).kind = "num"
                     /\ Similarity(j, qv).v > Similarity(i, qv).v )

\* the rows a hybrid request ranks: those with an embedding that pass the
\* predicate build_query applies for the same filter values
HybridCandidates(req) ==
    {i \in build_query(StructuralSearchRequest(Null, req.genre, req.directors,
                            req.stars, req.min_rating, req.max_rating,
                            req.min_runtime, req.max_runtime,
                            "rating", "desc", 0, 10)) :
        catalog[i].plot_embedding.kind # "null"}

\* C11: hybrid_search returns exactly min(limit, |S|) results, S the rows
\* with a non-null embedding that satisfy the predicate build_query applies
\* for the same filter values; every returned row is in S; and no omitted
\* row of S is strictly more similar to the query than a returned one.
C11_HybridTopLimitOfFiltered ==
    (call.op = "hybrid" /\ resp.status = 200) =>
        LET S == HybridCandidates(call.req)
            returned == {resp.results[k].id : k \in 1..Len(resp.results)}
            qv == QueryVector(call.req.query)
        IN  /\ Len(resp.results) = Min2(call.req.limit, Cardinality(S))
            /\ returned \subseteq S
            /\ \A j \in S \ returned : \A i \in returned :
                  ~( /\ Similarity(j, qv).kind = "num"
                     /\ Similarity(i, qv).kind = "num"
                     /\ Similarity(j, qv).v > Similarity(i, qv).v )

\* the part of C11 that does not depend on the query plan: the rows the
\* hybrid WHERE clause selects are the rows of S
C11_HybridWhereIsBuildQuery ==
    (call.op = "hybrid" /\ resp.status = 200) =>
        /\ matched = HybridCandidates(call.req)
        /\ \A k \in 1..Len(resp.results) : resp.results[k].id \in matched

\* score a is at least score b, as numbers compare: an absent score and a
\* NaN are at least nothing and nothing is at least them
ScoreGeq(a, b) == a.kind = "num" /\ b.kind = "num" /\ a.v >= b.v

\* C12: in every result list of semantic_search or hybrid_search the
\* reported similarity_score values are non-increasing by position: for
\* all positions i < j, score[i] >= score[j].
C12_ScoresNonIncreasing ==
    RankedOK =>
        \A i \in 1..Len(resp.results) : \A j \in 1..Len(resp.results) :
            i < j => ScoreGeq(resp.results[i].similarity_score,
                              resp.results[j].similarity_score)

\* the same on the results whose score is a number
C12_NumericScoresNonIncreasing ==
    RankedOK =>
        \A i \in 1..Len(resp.results) : \A j \in 1..Len(resp.results) :
            (/\ i < j
             /\ resp.results[i].similarity_score.kind = "num"
             /\ resp.results[j].similarity_score.kind = "num")
            => resp.results[i].similarity_score.v >= resp.results[j].similarity_score.v

\* C13: semantic and hybrid results are ordered by descending similarity
\* with ties broken by ascending record id: of two returned rows whose
\* similarities are numbers, the more similar one comes first, and of two
\* equally similar ones the one with the smaller id comes first (so one
\* request on one catalog has one possible sequence of records).
C13_TiesBrokenByAscendingId ==
    RankedOK =>
        LET qv == QueryVector(call.req.query)
        IN  \A i \in 1..Len(resp.results) : \A j \in 1..Len(resp.results) :
                LET a == Similarity(resp.results[i].id, qv)
                    b == Similarity(resp.results[j].id, qv)
                IN  (i < j /\ a.kind = "num" /\ b.kind = "num") =>
                        \/ a.v > b.v
                        \/ a.v = b.v /\ resp.results[i].id < resp.results[j].id

\* C14: every result of semantic_search or hybrid_search carries a
\* similarity_score, never an absent one, and when the similarity
\* 1 - cosine distance is a number the score is that number rounded to 4
\* decimal places, whatever its value (0 and negative ones included).
C14_ScoreIsRoundedSimilarity ==
    RankedOK =>
        LET qv == QueryVector(call.req.query)
        IN  \A k \in 1..Len(resp.results) :
                LET raw == Similarity(resp.results[k].id, qv)
                    score == resp.results[k].similarity_score
                IN  /\ score.kind # "none"
                    /\ raw.kind = "num" => score = Score(Round4(raw.v))

\* the same for the similarities other than exactly 0
C14_NonZeroScoreIsRoundedSimilarity ==
    RankedOK =>
        LET qv == QueryVector(call.req.query)
        IN  \A k \in 1..Len(resp.results) :
                LET raw == Similarity(resp.results[k].id, qv)
                    score == resp.results[k].similarity_score
                IN  (raw.kind = "num" /\ raw.v # 0) => score = Score(Round4(raw.v))

\* C15: generate_embedding(text) of a text that is empty or only
\* whitespace returns the all-zero vector of length 384 without calling
\* get_model(): no text is handed to model.encode, the model is not
\* loaded and _model is left as it was.
C15_BlankTextGivesZeroVectorWithoutModel ==
    [][ (/\ call.op = "none"
         /\ call'.op = "generate_embedding"
         /\ call'.req # Null
         /\ Blank(Val(call'.req)))
        => /\ resp'.embedding = ZeroVector
           /\ resp'.embedding.len = 384
           /\ resp'.encoded = <<>>
           /\ model' = model
           /\ loads' = loads ]_vars

C15_Witness ==
    /\ call.op = "generate_embedding"
    /\ call.req = Some(<<" ">>)
    /\ resp.embedding = ZeroVector
    /\ model = Null
    /\ loads = 0

\* C16: for every list of texts (non-empty, empty, whitespace-only or
\* None) and every batch_size, batch_generate_embeddings(texts) has the
\* length and order of texts and its i-th vector is the vector
\* generate_embedding(texts[i]) returns.
C16_BatchEqualsSingle ==
    (call.op = "batch_generate_embeddings" /\ call.embedding = "ok") =>
        /\ Len(resp.embeddings) = Len(call.req.texts)
        /\ \A i \in 1..Len(call.req.texts) :
              resp.embeddings[i] = EmbeddingOfText(call.req.texts[i]).embedding

C16_Witness ==
    /\ call.op = "batch_generate_embeddings"
    /\ call.req.batch_size = 2
    /\ call.req.texts = <<Some(<<"a","b","c">>), Null, Some(<<" ">>)>>
    /\ resp.embeddings = <<Encoding(<<"a","b","c">>), ZeroVector, ZeroVector>>

\* C17: when the model fails to load or to encode a non-blank query, the
\* search call fails: the endpoint answers with the error, the SQL is not
\* executed (no row is selected), no result list is returned, and the
\* call is not answered as a search with the zero vector would be.
C17_EmbeddingFailurePropagates ==
    (call.op \in {"semantic", "hybrid"} /\ call.embedding # "ok") =>
        /\ resp.status = 500
        /\ resp.detail = (IF call.op = "semantic" THEN "Semantic search failed"
                                                  ELSE "Hybrid search failed")
        /\ matched = {}
        /\ call.statements = 0
        /\ "results" \notin DOMAIN resp
        /\ call.embedding = "load_failed" => model = Null

C17_Witness ==
    /\ call.op = "hybrid"
    /\ call.embedding = "encode_failed"
    /\ \E i \in DOMAIN catalog : catalog[i].plot_embedding.kind = "vec"
    /\ resp = HTTP500("Hybrid search failed")
    /\ matched = {}

\* the requests the validation is to reject: a rating bound outside
\* [0, 10], a negative runtime bound, a semantic or hybrid query that is
\* missing or shorter than 3 characters, a limit outside [1, 100], a
\* negative skip
OutOfRange(op, req) ==
    \/ /\ op \in {"structural", "hybrid"}
       /\ \/ req.min_rating # Null /\ (Val(req.min_rating) < 0 \/ Val(req.min_rating) > 100)
          \/ req.max_rating # Null /\ (Val(req.max_rating) < 0 \/ Val(req.max_rating) > 100)
          \/ req.min_runtime # Null /\ Val(req.min_runtime) < 0
          \/ req.max_runtime # Null /\ Val(req.max_runtime) < 0
    \/ /\ op \in {"semantic", "hybrid"}
       /\ ("query" \notin DOMAIN req \/ Len(req.query) < 3)
    \/ req.limit < 1 \/ req.limit > 100
    \/ op = "structural" /\ req.skip < 0

\* C18: a search request is rejected with a validation error, with no
\* catalog query and no embedding, whenever a rating bound is outside
\* [0, 10], a runtime bound (min_runtime or max_runtime) is negative, a
\* semantic or hybrid query is missing or shorter than 3 characters, limit
\* is outside [1, 100] or skip is negative; every other request is
\* accepted.
C18_OutOfRangeRequestsAreRejected ==
    call.op \in {"structural", "semantic", "hybrid"} =>
        /\ OutOfRange(call.op, call.req) <=> resp.status = 422
        /\ resp.status = 422 => (matched = {} /\ call.embedding = "not_called")

\* the same without the negative max_runtime
C18_RejectedExceptNegativeMaxRuntime ==
    call.op \in {"structural", "semantic", "hybrid"} =>
        /\ resp.status = 422 => OutOfRange(call.op, call.req)
        /\ (OutOfRange(call.op, call.req) /\ resp.status # 422) =>
              (call.req.max_runtime # Null /\ Val(call.req.max_runtime) < 0)
        /\ resp.status = 422 => (matched = {} /\ call.embedding = "not_called")

\* C19: on an empty catalog get_stats returns exactly min_rating 0.0,
\* max_rating 10.0, min_runtime 0, max_runtime 300, total_movies 0, and
\* no null field.
C19_StatsDefaultsOnEmptyCatalog ==
    (call.op = "stats" /\ catalog = <<>>) =>
        resp = [status |-> 200, min_rating |-> 0, max_rating |-> 100,
                min_runtime |-> 0, max_runtime |-> 300, total_movies |-> 0]

C19_Witness ==
    /\ call.op = "stats"
    /\ catalog = <<>>
    /\ resp.status = 200
    /\ resp.max_rating = 100
    /\ resp.max_runtime = 300

\* C20: on a non-empty catalog get_stats returns the aggregates over all
\* rows: total_movies is the number of rows, and min/max rating and
\* runtime are the smallest and largest non-null value of the column when
\* a row has one (the defaults are for the empty catalog only).
C20_StatsAreAggregates ==
    (call.op = "stats" /\ catalog # <<>>) =>
        /\ resp.total_movies = Len(catalog)
        /\ ColumnValues("rating") # {} =>
              /\ resp.min_rating \in ColumnValues("rating")
              /\ resp.max_rating \in ColumnValues("rating")
              /\ \A v \in ColumnValues("rating") :
                    resp.min_rating <= v /\ v <= resp.max_rating
        /\ ColumnValues("runtime") # {} =>
              /\ resp.min_runtime \in ColumnValues("runtime")
              /\ resp.max_runtime \in ColumnValues("runtime")
              /\ \A v \in ColumnValues("runtime") :
                    resp.min_runtime <= v /\ v <= resp.max_runtime

\* the same on the catalogs whose largest rating and largest runtime are
\* not 0
C20_StatsAreAggregatesUnlessMaxIsZero ==
    (call.op = "stats" /\ catalog # <<>>) =>
        /\ resp.total_movies = Len(catalog)
        /\ (ColumnValues("rating") # {} /\ SqlMax("rating") # Some(0)) =>
              /\ resp.min_rating = Val(SqlMin("rating"))
              /\ resp.max_rating = Val(SqlMax("rating"))
        /\ (ColumnValues("runtime") # {} /\ SqlMax("runtime") # Some(0)) =>
              /\ resp.min_runtime = Val(SqlMin("runtime"))
              /\ resp.max_runtime = Val(SqlMax("runtime"))

\* the set of tags of a movie: its genre split on commas, each piece
\* trimmed, empty pieces dropped; none for a null or empty genre
TagsOfMovie(i) ==
    IF catalog[i].genre = Null THEN {}
    ELSE {GenreTags(Val(catalog[i].genre))[k] :
            k \in 1..Len(GenreTags(Val(catalog[i].genre)))}

\* C21: get_genres returns each distinct tag of the catalog exactly once,
\* with a count equal to the number of movies whose genre list contains
\* the tag, ordered by count non-increasing; null and empty genres
\* contribute nothing and an empty catalog gives an empty list.
C21_GenresCountMovies ==
    call.op = "genres" =>
        LET g == resp.genres
        IN  /\ \A i \in 1..Len(g) : \A j \in 1..Len(g) :
                  i # j => g[i].name # g[j].name
            /\ {g[k].name : k \in 1..Len(g)} =
                  UNION {TagsOfMovie(i) : i \in DOMAIN catalog}
            /\ \A k \in 1..Len(g) :
                  g[k].count =
                    Cardinality({i \in DOMAIN catalog : g[k].name \in TagsOfMovie(i)})
            /\ \A i \in 1..Len(g) : \A j \in 1..Len(g) :
                  i < j => g[i].count >= g[j].count
            /\ catalog = <<>> => g = <<>>

\* the same with the count taken per occurrence of the tag
C21_GenresCountOccurrences ==
    call.op = "genres" =>
        LET g == resp.genres
        IN  /\ \A i \in 1..Len(g) : \A j \in 1..Len(g) :
                  i # j => g[i].name # g[j].name
            /\ {g[k].name : k \in 1..Len(g)} =
                  UNION {TagsOfMovie(i) : i \in DOMAIN catalog}
            /\ \A k \in 1..Len(g) :
                  g[k].count >=
                    Cardinality({i \in DOMAIN catalog : g[k].name \in TagsOfMovie(i)})
            /\ \A i \in 1..Len(g) : \A j \in 1..Len(g) :
                  i < j => g[i].count >= g[j].count
            /\ catalog = <<>> => g = <<>>

\* C22: when the catalog store raises during a structural, semantic or
\* hybrid search, the call ends with the error answer (HTTP 500) of its
\* endpoint, the failing statement is the last one sent (no retry), and
\* the answer is not a success with an empty result list.
C22_StoreFailurePropagates ==
    (/\ call.op \in {"structural", "semantic", "hybrid"}
     /\ call.store \in {"failed", "count_failed", "select_failed"}) =>
        /\ resp.status = 500
        /\ resp.detail = (CASE call.op = "structural" -> "Search failed"
                            [] call.op = "semantic" -> "Semantic search failed"
                            [] call.op = "hybrid" -> "Hybrid search failed")
        /\ "results" \notin DOMAIN resp
        /\ call.statements = (IF call.store = "select_failed" THEN 2 ELSE 1)

C22_Witness ==
    /\ call.op = "structural"
    /\ call.store = "select_failed"
    /\ call.statements = 2
    /\ catalog # <<>>
    /\ resp = HTTP500("Search failed")

\* C23: no operation of the two services changes the catalog: every step
\* of every run of search, genres and stats calls, successful or failing,
\* leaves the rows, their field values and their embeddings as they were.
C23_CatalogNeverChanges == [][catalog' = catalog]_vars

C23_Witness ==
    /\ call.op = "hybrid"
    /\ call.store = "failed"
    /\ resp.status = 500
    /\ Len(catalog) = 3
    /\ \E i \in DOMAIN catalog : catalog[i].plot_embedding.kind = "vec"

\* the call needs the encoder: it carries a text that is not blank
NeedsEncoding(c) ==
    \/ c.op = "generate_embedding" /\ ~NotText(c.req)
    \/ /\ c.op = "batch_generate_embeddings"
       /\ \E i \in 1..Len(c.req.texts) : ~NotText(c.req.texts[i])

\* C24: in a sequential run of generate_embedding and
\* batch_generate_embeddings calls the model is loaded only by a call that
\* needs to encode a text, it is loaded at most once, a loaded model is
\* the handle of every later call, and a load that raises leaves _model
\* None.
C24_ModelLoadedLazilyOnce ==
    [][ /\ (model = Null /\ model' # Null) => NeedsEncoding(call')
        /\ loads' <= 1
        /\ model # Null => (model' = model /\ loads' = loads)
        /\ (call.op = "none" /\ call'.op # "none"
              /\ call'.embedding = "load_failed") => model' = Null ]_vars

\* the same with the load allowed to any batch call
C24_ModelLoadedOnce ==
    [][ /\ (model = Null /\ model' # Null) =>
               (NeedsEncoding(call') \/ call'.op = "batch_generate_embeddings")
        /\ loads' <= 1
        /\ model # Null => (model' = model /\ loads' = loads)
        /\ (call.op = "none" /\ call'.op # "none"
              /\ call'.embedding = "load_failed") => model' = Null ]_vars

\* C25: batch_generate_embeddings never hands an empty, whitespace-only
\* or None item to the encoder, and a batch made only of such items
\* returns zero vectors without loading the model or calling the encoder.
C25_BlankItemsNeverEncoded ==
    [][ (call.op = "none" /\ call'.op = "batch_generate_embeddings") =>
           /\ call'.embedding = "ok" =>
                 \A k \in 1..Len(resp'.encoded) : ~Blank(resp'.encoded[k])
           /\ ~NeedsEncoding(call') =>
                 /\ call'.embedding = "ok"
                 /\ resp'.encoded = <<>>
                 /\ resp'.embeddings = [i \in 1..Len(call'.req.texts) |-> ZeroVector]
                 /\ model' = model
                 /\ loads' = loads ]_vars

\* what the batch path does keep for blank items: their vectors are zero
C25_BlankItemsGetZeroVectors ==
    (call.op = "batch_generate_embeddings" /\ call.embedding = "ok") =>
        \A i \in 1..Len(call.req.texts) :
            NotText(call.req.texts[i]) => resp.embeddings[i] = ZeroVector

\* the ids of the returned results, in order
ResultIds == [k \in 1..Len(resp.results) |-> resp.results[k].id]

\* some eligible row (one the WHERE clause selects) has a reported
\* similarity of at least 0.6; the best-ranked eligible row then has
BestEligibleReachesThreshold ==
    \E i \in matched :
        AboveThreshold(RowScore(Similarity(i, QueryVector(call.req.query))))

\* C26: for a fixed catalog, query and hybrid filters, exact_matches is
\* whether the best-ranked eligible record has a similarity of at least
\* 0.6, and so it is the same for every limit.
C26_FlagIsThatOfBestEligible ==
    RankedOK => (resp.exact_matches <=> BestEligibleReachesThreshold)

\* the same for the answers a sequential scan gives
C26_FlagIsThatOfBestEligibleOnSeqScan ==
    (/\ RankedOK
     /\ ResultIds \in SeqScan(matched, QueryVector(call.req.query),
                               call.req.limit))
    => (resp.exact_matches <=> BestEligibleReachesThreshold)

\* C27: exact_matches, computed from the scores rounded to 4 places, is
\* what the unrounded similarities 1 - cosine distance give against 0.6.
C27_RoundingKeepsClassification ==
    RankedOK =>
        (resp.exact_matches <=>
            \E k \in 1..Len(resp.results) :
                LET raw == Similarity(resp.results[k].id,
                                      QueryVector(call.req.query))
                IN  raw.kind = "num" /\ raw.v >= 60000)

\* the same for the similarities outside [0.59995, 0.6)
C27_RoundingKeepsClassificationAwayFromThreshold ==
    (/\ RankedOK
     /\ \A k \in 1..Len(resp.results) :
           LET raw == Similarity(resp.results[k].id, QueryVector(call.req.query))
           IN  raw.kind = "num" => (raw.v < 59995 \/ raw.v >= 60000))
    => (resp.exact_matches <=>
            \E k \in 1..Len(resp.results) :
                LET raw == Similarity(resp.results[k].id,
                                      QueryVector(call.req.query))
                IN  raw.kind = "num" /\ raw.v >= 60000)

\* C28: every query that passes the validation of SemanticSearchRequest or
\* HybridSearchRequest is embedded by the model: the rows are never ranked
\* against the zero vector.
C28_QueryVectorIsNeverZero ==
    (/\ call.op \in {"semantic", "hybrid"}
     /\ ValidSemantic(call.req)
     /\ call.embedding = "ok"
     /\ call.store = "ok")
    => QueryVector(call.req.query) # "zero"

\* the ids of a page of rows
PageIds(results) == {results[k] : k \in 1..Len(results)}

\* C29: for a fixed catalog, filters, sort_by and sort_order, the pages of
\* successive structural searches at skip = 0, limit, 2*limit, ... are
\* pairwise disjoint, also when rows share the value of the sort field
\* (with the page lengths of C3, disjoint pages hold every matching row
\* exactly once).
C29_PagesAreDisjoint ==
    (StructuralOK /\ call.req.skip % call.req.limit = 0) =>
        \A m \in 0..Len(catalog) :
            m * call.req.limit # call.req.skip =>
                \A out \in execute_search([call.req EXCEPT !.skip = m * call.req.limit]) :
                    PageIds(out.results) \cap
                      {resp.results[k].id : k \in 1..Len(resp.results)} = {}

\* the same when no two matching rows share the value of the sort field
C29_PagesAreDisjointWithoutTies ==
    (/\ StructuralOK
     /\ call.req.skip % call.req.limit = 0
     /\ \A i \in matched : \A j \in matched :
           i # j => catalog[i][call.req.sort_by] # catalog[j][call.req.sort_by]) =>
        \A m \in 0..Len(catalog) :
            m * call.req.limit # call.req.skip =>
                \A out \in execute_search([call.req EXCEPT !.skip = m * call.req.limit]) :
                    PageIds(out.results) \cap
                      {resp.results[k].id : k \in 1..Len(resp.results)} = {}

\* the hybrid request sets no structural filter
NoHybridFilter(req) ==
    /\ req.genre = Null /\ req.directors = Null /\ req.stars = Null
    /\ req.min_rating = Null /\ req.max_rating = Null
    /\ req.min_runtime = Null /\ req.max_runtime = Null

\* the (results, exact_matches, message) a search over the given rows can
\* answer with
RankedAnswers(rows, query, limit, empty_message) ==
    { SearchResult(r, QueryVector(query), empty_message) :
        r \in NearestRows(rows, QueryVector(query), limit) }

\* C30: a hybrid_search request without structural filter answers as
\* semantic_search does for the same query and limit on the same catalog:
\* every answer of the one is an answer of the other, with the same result
\* list and exact_matches flag, and the same message unless the result
\* list is empty.
C30_HybridWithoutFilterIsSemantic ==
    /\ (RankedOK /\ call.op = "hybrid" /\ NoHybridFilter(call.req)) =>
          \E a \in RankedAnswers(semantic_where, call.req.query,
                                  call.req.limit, "No movies found") :
              /\ a.movies = resp.results
              /\ a.exact_matches = resp.exact_matches
              /\ resp.results # <<>> => a.message = resp.message
    /\ (RankedOK /\ call.op = "semantic") =>
          \E a \in RankedAnswers(
                      hybrid_where(HybridSearchRequest(call.req.query, Null, Null,
                                       Null, Null, Null, Null, Null,
                                       call.req.limit)),
                      call.req.query, call.req.limit,
                      "No movies found matching your criteria") :
              /\ a.movies = resp.results
              /\ a.exact_matches = resp.exact_matches
              /\ resp.results # <<>> => a.message = resp.message

C30_Witness ==
    /\ RankedOK
    /\ call.op = "hybrid"
    /\ NoHybridFilter(call.req)
    /\ Len(resp.results) = 3
    /\ \E k \in 1..3 : catalog[resp.results[k].id].runtime = Null
    /\ resp.exact_matches

====
